---- MODULE Spec2Model ----
(***************************************************************************)
(* TSPSolver3D (mrim_planner/scripts/solvers/tsp_solvers.py): one planning *)
(* session of plan_tour -> compute_tsp_tour -> compute_tsp_sequence.        *)
(*                                                                         *)
(* Poses are records [x, y, z, heading] over the integers.  The external   *)
(* collaborators (line-of-sight test, A* / RRT planners, the LKH oracle)   *)
(* are nondeterministic choices over small sets of results.                *)
(***************************************************************************)
EXTENDS Integers, Sequences, FiniteSets, TLC

VARIABLES
    pc,                   \* position of the session in plan_tour / compute_tsp_tour
    n,                    \* len(viewpoints)
    viewpoints,           \* viewpoints[v].pose, v in 0..n-1
    path_planner,         \* path_planner['path_planning_method']
    distance_estimation_method,  \* path_planner['distance_estimation_method']
    obstacles_kdtree,     \* number of times path_planner['obstacles_kdtree'] (and 'bounds') was built
    distances,            \* self.distances, n x n
    paths,                \* self.paths, dict keyed by (a, b)
    tooFarAwayPairs,      \* self.tooFarAwayPairs, list of (a, b)
    tooFarAwayDistances,  \* self.tooFarAwayDistances, dict keyed by (a, b)
    a,                    \* outer loop index (plan_tour)
    b,                    \* inner loop index (plan_tour)
    sequence,             \* local `sequence` of compute_tsp_sequence / compute_tsp_tour
    new_sequence,         \* the sequence compute_tsp_sequence is about to return (lines 313-317)
    i,                    \* loop index of the deferred-edge loop in compute_tsp_tour
    path,                 \* local `path` of compute_tsp_tour; the returned tour at "done"
    exitStatus,           \* 0 while running or returned, -2 after exit(-2), 1 after an uncaught exception
    error,                \* name of the uncaught exception, "" if none
    plannerCalls,         \* log: calls of compute_path with the configured planning method
    losLog,               \* log: calls of check_line_of_sight
    cpc,                  \* position of a call of clusterViewpoints
    number_of_robots,     \* problem.number_of_robots (the local `k`)
    method,               \* argument `method` of clusterViewpoints
    d_mat,                \* local `d_mat`, k x k, while the assignment loop reads it
    assigned_clusters,    \* local `assigned_clusters`: cluster index -> UAV index
    ctr_it,               \* outer loop index of the assignment loop
    kmeans_labels,        \* kmeans_res.labels_ as KMeans returned it
    labels,               \* local `labels`
    clusters              \* local `clusters`; the returned value at "returned"

\* the planner configuration and what setup() builds from it
configVars == <<distance_estimation_method, obstacles_kdtree>>

\* the variables of a call of clusterViewpoints
clusterVars == <<cpc, number_of_robots, method, d_mat, assigned_clusters, ctr_it, kmeans_labels,
                 labels, clusters>>

\* the variables of a planning session
planVars == <<pc, n, viewpoints, path_planner, distances, paths, tooFarAwayPairs,
              tooFarAwayDistances, a, b, sequence, new_sequence, i, path, exitStatus,
              error, plannerCalls, losLog, configVars>>

vars == <<planVars, clusterVars>>

----------------------------------------------------------------------------
(* Bounds of the model *)

\* largest number of viewpoints of a session
MaxViewpoints == 3

\* largest number of intermediate waypoints on a path the planner returns
MaxWaypoints == 1

\* largest number of viewpoint pairs whose straight segment an obstacle blocks
MaxObstructed == 2

----------------------------------------------------------------------------
(* Program constants *)

\* the sentinel entry `None` of the oracle's result (an index is >= 0)
None == -1

\* np.full((n, n), -1.0): the "unset" cell
UNSET == -1

\* DIST_THRESHOLD = 5.0
DIST_THRESHOLD == 5

\* float('inf'), the distance compute_path starts from
Infinity == 1000

ALLOWED_PATH_PLANNERS == <<"euclidean", "astar", "rrt", "rrtstar">>

ALLOWED_DISTANCE_ESTIMATION_METHODS == <<"euclidean", "astar", "rrt", "rrtstar">>

----------------------------------------------------------------------------
(* Geometry *)

Pose(x, y, z, heading) == [x |-> x, y |-> y, z |-> z, heading |-> heading]

Range(s) == {s[k] : k \in 1..Len(s)}

\* the integer square roots (floor) of the squared distances that occur: the
\* farthest viewpoint of ViewpointList lies at x = 4 * MaxViewpoints
SqrtTable ==
    [s \in 0..(16 * MaxViewpoints * MaxViewpoints) |->
        CHOOSE r \in 0..s : r * r <= s /\ s < (r + 1) * (r + 1)]

\* integer square root (floor)
ISqrt(s) == SqrtTable[s]

\* utils.distEuclidean: Euclidean distance of the two positions
distEuclidean(p, q) ==
    ISqrt((p.x - q.x) * (p.x - q.x) + (p.y - q.y) * (p.y - q.y) + (p.z - q.z) * (p.z - q.z))

\* The viewpoints of a session: collinear, the first two 8 apart and the
\* following ones 4 apart, so that estimates on both sides of DIST_THRESHOLD
\* occur; headings alternate between two values.
ViewpointList(k) ==
    [v \in 0..(k - 1) |->
        [pose |-> Pose(IF v = 0 THEN 0 ELSE 4 + 4 * v, 0, 0, v % 2)]]

----------------------------------------------------------------------------
(* External collaborators *)

\* RRT.generatePath / AStar.generatePath followed by the conversion to Pose
\* objects: either no path, or a path from p_from's position to p_to's
\* position through w intermediate waypoints (off the viewpoints' line), all
\* poses carrying the heading h the planner chose (the start's or the goal's),
\* with the length it reports.
PlannedPath(p_from, p_to, w, h) ==
    <<Pose(p_from.x, p_from.y, p_from.z, h)>>
    \o [j \in 1..w |->
          Pose((p_from.x * (w + 1 - j) + p_to.x * j) \div (w + 1), j, p_from.z, h)]
    \o <<Pose(p_to.x, p_to.y, p_to.z, h)>>

generatePath(p_from, p_to) ==
    {[path |-> <<>>, distance |-> Infinity]}
    \cup {[path |-> PlannedPath(p_from, p_to, w, h),
           distance |-> distEuclidean(p_from, p_to) + 2 * w + 1] :
            w \in 0..MaxWaypoints, h \in {p_from.heading, p_to.heading}}

\* LKHInvoker.read_LKHresult_cmd: the visiting order of the n nodes, with or
\* without the anchor entry (None) at any position, or nothing at all.
VisitingOrders(k) ==
    {s \in [1..k -> 0..(k - 1)] : \A x, y \in 1..k : x # y => s[x] # s[y]}

InsertAt(s, k, e) == SubSeq(s, 1, k) \o <<e>> \o SubSeq(s, k + 1, Len(s))

read_LKHresult_cmd(k) ==
    {<<>>} \cup VisitingOrders(k)
    \cup {InsertAt(s, pos, None) : s \in VisitingOrders(k), pos \in 0..k}

----------------------------------------------------------------------------
(* compute_path *)

\* the results compute_path can obtain before its no-path test
compute_path(p_from, p_to, path_planner_method) ==
    IF path_planner_method = "euclidean"
    THEN {[path |-> <<p_from, p_to>>, distance |-> distEuclidean(p_from, p_to)]}
    ELSE generatePath(p_from, p_to)

\* mutant: the no-path test is missing
NoPathFound_Never(p) == FALSE

\* `if path is None or len(path) == 0` : exit(-2)
NoPathFound(p) == Len(p) = 0

----------------------------------------------------------------------------
(* Helpers of plan_tour *)

\* path[-1].heading = g2.heading
SetLastHeading(p, heading) ==
    IF Len(p) = 0 THEN p ELSE [p EXCEPT ![Len(p)].heading = heading]

\* list(reversed(path))
Reversed(p) == [k \in 1..Len(p) |-> p[Len(p) + 1 - k]]

\* d[key] = value on a dict
Put(d, key, value) == (key :> value) @@ d

\* self.paths[(a, b)] = path ; self.paths[(b, a)] = list(reversed(path))
StorePaths(ps, va, vb, p) == Put(Put(ps, <<va, vb>>, p), <<vb, va>>, Reversed(p))

\* mutant: only one direction is written
StoreDistances_OneWay(ds, va, vb, distance) == [ds EXCEPT ![<<va, vb>>] = distance]

\* self.distances[a][b] = distance ; self.distances[b][a] = distance
StoreDistances(ds, va, vb, distance) ==
    [ds EXCEPT ![<<va, vb>>] = distance, ![<<vb, va>>] = distance]

\* mutant: nothing is ever treated as too far away
TooFarAway_Never(distance) == FALSE

\* `if distance > DIST_THRESHOLD`
TooFarAway(distance) == distance > DIST_THRESHOLD

\* mutant: the bias is 2
BiasedDistance_Twice(distance) == distance * 2

\* `distance *= 3`
BiasedDistance(distance) == distance * 3

\* mutant: the inner loop is left after its first iteration
NextIndices_SkipRow(va, vb) == <<va + 1, 0>>

\* the loop indices after one more iteration of `for a ... for b ...`
NextIndices(va, vb) == IF vb + 1 < n THEN <<va, vb + 1>> ELSE <<va + 1, 0>>

----------------------------------------------------------------------------
(* plan_tour: the call of setup(), lines 98-104, then one action per loop *)
(* iteration                                                              *)

\* the method names a configuration may carry: the recognized ones and one
\* that is not
MethodNames == {"euclidean", "astar", "rrt", "rrtstar", "prm"}

\* no call of clusterViewpoints is under way
NoClustering ==
    /\ cpc = "idle"
    /\ number_of_robots = 0
    /\ method = ""
    /\ d_mat = <<>>
    /\ assigned_clusters = <<>>
    /\ ctr_it = 0
    /\ kmeans_labels = <<>>
    /\ labels = <<>>
    /\ clusters = <<>>

\* the state at the call of plan_tour with k viewpoints and the two methods
CallOfPlanTour(k, planning, estimation) ==
    /\ n = k
    /\ viewpoints = ViewpointList(k)
    /\ path_planner = planning
    /\ distance_estimation_method = estimation
    /\ obstacles_kdtree = 0
    /\ distances = <<>>
    /\ paths = <<>>
    /\ tooFarAwayPairs = <<>>
    /\ tooFarAwayDistances = <<>>
    /\ pc = "setup"
    /\ a = 0
    /\ b = 0
    /\ sequence = <<>>
    /\ new_sequence = <<>>
    /\ i = 0
    /\ path = <<>>
    /\ exitStatus = 0
    /\ error = ""
    /\ plannerCalls = <<>>
    /\ losLog = <<>>
    /\ NoClustering

\* sessions of up to MaxViewpoints viewpoints whose configuration names one
\* method for both planning and distance estimation
Init ==
    \E k \in 1..MaxViewpoints, m \in MethodNames : CallOfPlanTour(k, m, m)

\* sessions of two or three viewpoints with every combination of method names
InitConfig ==
    \E k \in 2..3, planning \in MethodNames, estimation \in MethodNames :
        CallOfPlanTour(k, planning, estimation)

\* mutant: the assert of line 38 is missing
MethodsAllowed_PlanningOnly == path_planner \in Range(ALLOWED_PATH_PLANNERS)

\* lines 37-38: both method names are recognized
MethodsAllowed ==
    /\ path_planner \in Range(ALLOWED_PATH_PLANNERS)
    /\ distance_estimation_method \in Range(ALLOWED_DISTANCE_ESTIMATION_METHODS)

\* line 41: the environment (KD tree, bounds) is needed
NeedsEnvironment(planning, estimation) ==
    planning # "euclidean" \/ estimation # "euclidean"

\* setup(): one of the asserts of lines 37-38 fails, AssertionError
SetupRejected ==
    /\ pc = "setup"
    /\ ~MethodsAllowed
    /\ pc' = "crashed"
    /\ error' = "AssertionError"
    /\ exitStatus' = 1
    /\ UNCHANGED <<n, viewpoints, path_planner, distances, paths, tooFarAwayPairs,
                   tooFarAwayDistances, a, b, sequence, new_sequence, i, path,
                   plannerCalls, losLog, configVars, clusterVars>>

\* setup() returns (lines 37-52), then lines 98-104 of plan_tour
SetupDone ==
    /\ pc = "setup"
    /\ MethodsAllowed
    /\ obstacles_kdtree' =
          IF NeedsEnvironment(path_planner, distance_estimation_method)
          THEN obstacles_kdtree + 1 ELSE obstacles_kdtree
    /\ distances' = [p \in (0..(n - 1)) \X (0..(n - 1)) |-> IF p[1] = p[2] THEN 0 ELSE UNSET]
    /\ pc' = "plan_tour"
    /\ UNCHANGED <<n, viewpoints, path_planner, distance_estimation_method, paths,
                   tooFarAwayPairs, tooFarAwayDistances, a, b, sequence, new_sequence,
                   i, path, exitStatus, error, plannerCalls, losLog, clusterVars>>

\* the pair (a, b) of the current iteration has to be computed
PairPending == pc = "plan_tour" /\ a < n /\ a # b /\ distances[<<a, b>>] = UNSET

\* check_line_of_sight(g1, g2, path_planner, check_bounds=False): the obstacle
\* field of the session decides; it blocks at most MaxObstructed pairs
check_line_of_sight ==
    {TRUE} \cup
    (IF Cardinality({k \in 1..Len(losLog) : ~losLog[k].los}) < MaxObstructed
     THEN {FALSE} ELSE {})

\* `if a == b or self.distances[a][b] != -1.0: continue`
SkipPair ==
    /\ pc = "plan_tour"
    /\ a < n
    /\ (a = b \/ distances[<<a, b>>] # UNSET)
    /\ a' = NextIndices(a, b)[1]
    /\ b' = NextIndices(a, b)[2]
    /\ UNCHANGED <<pc, n, viewpoints, path_planner, distances, paths, tooFarAwayPairs,
                   tooFarAwayDistances, sequence, new_sequence, i, path, exitStatus, error,
                   plannerCalls, losLog>>
    /\ UNCHANGED <<configVars, clusterVars>>

\* lines 158-164 and the step of the loops
StorePair(p, distance) ==
    /\ paths' = StorePaths(paths, a, b, SetLastHeading(p, viewpoints[b].pose.heading))
    /\ distances' = StoreDistances(distances, a, b, distance)
    /\ a' = NextIndices(a, b)[1]
    /\ b' = NextIndices(a, b)[2]

\* check_line_of_sight is called although setup() built no KD tree: the
\* query can fail on the missing path_planner['obstacles_kdtree'] (KeyError);
\* the other actions cover the case that it returns
PairLineOfSightError ==
    /\ PairPending
    /\ obstacles_kdtree = 0
    /\ pc' = "crashed"
    /\ error' = "KeyError"
    /\ exitStatus' = 1
    /\ UNCHANGED <<n, viewpoints, path_planner, distances, paths, tooFarAwayPairs,
                   tooFarAwayDistances, a, b, sequence, new_sequence, i, path,
                   plannerCalls, losLog, configVars, clusterVars>>

\* line of sight: the straight segment and the Euclidean distance are kept
PairLineOfSight ==
    /\ PairPending
    /\ TRUE \in check_line_of_sight
    /\ LET g1 == viewpoints[a].pose
           g2 == viewpoints[b].pose
       IN  \E r \in compute_path(g1, g2, "euclidean") :
              /\ ~NoPathFound(r.path)
              /\ losLog' = Append(losLog, [a |-> a, b |-> b, los |-> TRUE])
              /\ StorePair(r.path, r.distance)
    /\ UNCHANGED <<pc, n, viewpoints, path_planner, tooFarAwayPairs, tooFarAwayDistances,
                   sequence, new_sequence, i, path, exitStatus, error, plannerCalls>>
    /\ UNCHANGED <<configVars, clusterVars>>

\* no line of sight and distance > DIST_THRESHOLD: the pair is deferred
PairTooFar ==
    /\ PairPending
    /\ FALSE \in check_line_of_sight
    /\ LET g1 == viewpoints[a].pose
           g2 == viewpoints[b].pose
       IN  \E r \in compute_path(g1, g2, "euclidean") :
              /\ ~NoPathFound(r.path)
              /\ TooFarAway(r.distance)
              /\ losLog' = Append(losLog, [a |-> a, b |-> b, los |-> FALSE])
              /\ tooFarAwayPairs' = Append(Append(tooFarAwayPairs, <<a, b>>), <<b, a>>)
              /\ tooFarAwayDistances' =
                    Put(Put(tooFarAwayDistances, <<a, b>>, r.distance), <<b, a>>, r.distance)
              /\ StorePair(r.path, BiasedDistance(r.distance))
    /\ UNCHANGED <<pc, n, viewpoints, path_planner, sequence, new_sequence, i, path, exitStatus, error,
                   plannerCalls>>
    /\ UNCHANGED <<configVars, clusterVars>>

\* no line of sight and distance <= DIST_THRESHOLD: the configured planner
\* is called and finds a path
PairPlanned ==
    /\ PairPending
    /\ FALSE \in check_line_of_sight
    /\ LET g1 == viewpoints[a].pose
           g2 == viewpoints[b].pose
       IN  \E e \in compute_path(g1, g2, "euclidean") :
              /\ ~NoPathFound(e.path)
              /\ ~TooFarAway(e.distance)
              /\ \E r \in compute_path(g1, g2, path_planner) :
                    /\ ~NoPathFound(r.path)
                    /\ plannerCalls' = Append(plannerCalls,
                          [a |-> a, b |-> b, during |-> pc, path |-> r.path,
                           distance |-> r.distance])
                    /\ StorePair(r.path, r.distance)
    /\ losLog' = Append(losLog, [a |-> a, b |-> b, los |-> FALSE])
    /\ UNCHANGED <<pc, n, viewpoints, path_planner, tooFarAwayPairs, tooFarAwayDistances,
                   sequence, new_sequence, i, path, exitStatus, error>>
    /\ UNCHANGED <<configVars, clusterVars>>

\* ... and finds none: compute_path calls exit(-2)
PairNoPath ==
    /\ PairPending
    /\ FALSE \in check_line_of_sight
    /\ LET g1 == viewpoints[a].pose
           g2 == viewpoints[b].pose
       IN  \E e \in compute_path(g1, g2, "euclidean") :
              /\ ~NoPathFound(e.path)
              /\ ~TooFarAway(e.distance)
              /\ \E r \in compute_path(g1, g2, path_planner) :
                    /\ NoPathFound(r.path)
                    /\ plannerCalls' = Append(plannerCalls,
                          [a |-> a, b |-> b, during |-> pc, path |-> r.path,
                           distance |-> r.distance])
    /\ losLog' = Append(losLog, [a |-> a, b |-> b, los |-> FALSE])
    /\ pc' = "exit"
    /\ exitStatus' = -2
    /\ UNCHANGED <<n, viewpoints, path_planner, distances, paths, tooFarAwayPairs,
                   tooFarAwayDistances, a, b, sequence, new_sequence, i, path, error>>
    /\ UNCHANGED <<configVars, clusterVars>>

\* both loops are over: `path = self.compute_tsp_tour(viewpoints, path_planner)`
CallComputeTspTour ==
    /\ pc = "plan_tour"
    /\ a >= n
    /\ pc' = "compute_tsp_sequence"
    /\ UNCHANGED <<n, viewpoints, path_planner, distances, paths, tooFarAwayPairs,
                   tooFarAwayDistances, a, b, sequence, new_sequence, i, path, exitStatus, error,
                   plannerCalls, losLog>>
    /\ UNCHANGED <<configVars, clusterVars>>

----------------------------------------------------------------------------
(* compute_tsp_sequence *)

\* index (0-based) of the first None entry, Len(s) if there is none
FirstNone(s) ==
    IF \E k \in 1..Len(s) : s[k] = None
    THEN (CHOOSE k \in 1..Len(s) : s[k] = None /\ \A j \in 1..(k - 1) : s[j] # None) - 1
    ELSE Len(s)

\* mutant: the slices are cut one entry late
RotateAt_OffByOne(s, k) == SubSeq(s, k + 2, Len(s)) \o SubSeq(s, 1, k + 1)

\* sequence[k:len(sequence)] + sequence[:k]
RotateAt(s, k) == SubSeq(s, k + 1, Len(s)) \o SubSeq(s, 1, k)

\* lines 310-315: start the sequence at its first None entry
AnchorSequence(s) ==
    IF Len(s) > 0 /\ s[1] # None /\ FirstNone(s) < Len(s)
    THEN RotateAt(s, FirstNone(s))
    ELSE s

\* lines 306-308: the LKH run and the reading of its result
ReadLKHResult ==
    /\ pc = "compute_tsp_sequence"
    /\ sequence' \in read_LKHresult_cmd(n)
    /\ pc' = "anchor_sequence"
    /\ UNCHANGED <<new_sequence, n, viewpoints, path_planner, distances, paths, tooFarAwayPairs,
                   tooFarAwayDistances, a, b, i, path, exitStatus, error,
                   plannerCalls, losLog>>
    /\ UNCHANGED <<configVars, clusterVars>>

\* lines 310-315: the sequence to return, rotated to start at the anchor
RotateSequence ==
    /\ pc = "anchor_sequence"
    /\ new_sequence' = AnchorSequence(sequence)
    /\ pc' = "return_sequence"
    /\ UNCHANGED <<n, viewpoints, path_planner, distances, paths, tooFarAwayPairs,
                   tooFarAwayDistances, a, b, sequence, i, path, exitStatus, error,
                   plannerCalls, losLog>>
    /\ UNCHANGED <<configVars, clusterVars>>

\* line 317 and line 237: the return into compute_tsp_tour (i = 1 of range(1, len))
ReturnSequence ==
    /\ pc = "return_sequence"
    /\ sequence' = new_sequence
    /\ new_sequence' = <<>>
    /\ pc' = "resolve"
    /\ i' = 1
    /\ UNCHANGED <<n, viewpoints, path_planner, distances, paths, tooFarAwayPairs,
                   tooFarAwayDistances, a, b, path, exitStatus, error,
                   plannerCalls, losLog>>
    /\ UNCHANGED <<configVars, clusterVars>>

----------------------------------------------------------------------------
(* compute_tsp_tour: the loop over the deferred pairs (lines 243-253) *)

\* sequence[k] with Python's 0-based index
At(s, k) == s[k + 1]

\* `(a, b) in self.tooFarAwayPairs`
InTooFarAwayPairs(va, vb) == <<va, vb>> \in Range(tooFarAwayPairs)

\* the pair (sequence[i-1], sequence[i]) of the current iteration
ResolvePending ==
    /\ pc = "resolve"
    /\ i < Len(sequence)
    /\ InTooFarAwayPairs(At(sequence, i - 1), At(sequence, i))

ResolveSkip ==
    /\ pc = "resolve"
    /\ i < Len(sequence)
    /\ ~InTooFarAwayPairs(At(sequence, i - 1), At(sequence, i))
    /\ i' = i + 1
    /\ UNCHANGED <<pc, n, viewpoints, path_planner, distances, paths, tooFarAwayPairs,
                   tooFarAwayDistances, a, b, sequence, new_sequence, path, exitStatus, error,
                   plannerCalls, losLog>>
    /\ UNCHANGED <<configVars, clusterVars>>

\* `self.paths[(a,b)], _ = self.compute_path(g1, g2, ...)`
ResolveEdge ==
    /\ ResolvePending
    /\ LET va == At(sequence, i - 1)
           vb == At(sequence, i)
       IN  \E r \in compute_path(viewpoints[va].pose, viewpoints[vb].pose, path_planner) :
              /\ ~NoPathFound(r.path)
              /\ plannerCalls' = Append(plannerCalls,
                    [a |-> va, b |-> vb, during |-> pc, path |-> r.path,
                     distance |-> r.distance])
              /\ paths' = Put(paths, <<va, vb>>, r.path)
    /\ i' = i + 1
    /\ UNCHANGED <<pc, n, viewpoints, path_planner, distances, tooFarAwayPairs,
                   tooFarAwayDistances, a, b, sequence, new_sequence, path, exitStatus, error, losLog>>
    /\ UNCHANGED <<configVars, clusterVars>>

\* the planner finds no path for the deferred pair: exit(-2)
ResolveNoPath ==
    /\ ResolvePending
    /\ LET va == At(sequence, i - 1)
           vb == At(sequence, i)
       IN  \E r \in compute_path(viewpoints[va].pose, viewpoints[vb].pose, path_planner) :
              /\ NoPathFound(r.path)
              /\ plannerCalls' = Append(plannerCalls,
                    [a |-> va, b |-> vb, during |-> pc, path |-> r.path,
                     distance |-> r.distance])
    /\ pc' = "exit"
    /\ exitStatus' = -2
    /\ UNCHANGED <<n, viewpoints, path_planner, distances, paths, tooFarAwayPairs,
                   tooFarAwayDistances, a, b, sequence, new_sequence, i, path, error, losLog>>
    /\ UNCHANGED <<configVars, clusterVars>>

----------------------------------------------------------------------------
(* compute_tsp_tour: joining the paths (lines 256-283), entered when the *)
(* loop over the deferred pairs is over                                  *)

\* mutant: the last point of the segment is kept
JoinPaths_KeepLast(p, actual_path) == p \o actual_path

\* path = path + actual_path[:-1]
JoinPaths(p, actual_path) == p \o SubSeq(actual_path, 1, Len(actual_path) - 1)

\* mutant: the end point is never appended
ForceEndPoint_Never(p, k, b_idx) == p

\* `if a == (n - 1): path = path + [viewpoints[b_idx].pose]`
ForceEndPoint(p, k, b_idx) ==
    IF k = n - 1 THEN Append(p, viewpoints[b_idx].pose) ELSE p

\* sequence[a] and sequence[(a + 1) % n] exist
IndicesInRange(k) == k < Len(sequence) /\ (k + 1) % n < Len(sequence)

\* the loop `for a in range(n)` from iteration k on, with `path` = p: the
\* tour, or the exception that ends it
RECURSIVE JoinFrom(_, _)
JoinFrom(p, k) ==
    IF k >= n THEN [raised |-> "", path |-> p]
    ELSE IF ~IndicesInRange(k) THEN [raised |-> "IndexError", path |-> p]
    ELSE LET a_idx == At(sequence, k)
             b_idx == At(sequence, (k + 1) % n)
         IN  IF <<a_idx, b_idx>> \notin DOMAIN paths
             THEN [raised |-> "KeyError", path |-> p]
             ELSE JoinFrom(ForceEndPoint(JoinPaths(p, paths[<<a_idx, b_idx>>]), k, b_idx),
                           k + 1)

ResolveLoopOver == pc = "resolve" /\ i >= Len(sequence)

\* `return path`, through plan_tour to the caller
ReturnTour ==
    /\ ResolveLoopOver
    /\ JoinFrom(<<>>, 0).raised = ""
    /\ path' = JoinFrom(<<>>, 0).path
    /\ pc' = "done"
    /\ UNCHANGED <<n, viewpoints, path_planner, distances, paths, tooFarAwayPairs,
                   tooFarAwayDistances, a, b, sequence, new_sequence, i, exitStatus,
                   error, plannerCalls, losLog>>
    /\ UNCHANGED <<configVars, clusterVars>>

\* sequence[a] or sequence[b] does not exist: uncaught IndexError
AssembleIndexError ==
    /\ ResolveLoopOver
    /\ JoinFrom(<<>>, 0).raised = "IndexError"
    /\ path' = JoinFrom(<<>>, 0).path
    /\ pc' = "crashed"
    /\ error' = "IndexError"
    /\ exitStatus' = 1
    /\ UNCHANGED <<n, viewpoints, path_planner, distances, paths, tooFarAwayPairs,
                   tooFarAwayDistances, a, b, sequence, new_sequence, i,
                   plannerCalls, losLog>>
    /\ UNCHANGED <<configVars, clusterVars>>

\* self.paths has no key (a_idx, b_idx): uncaught KeyError
AssembleKeyError ==
    /\ ResolveLoopOver
    /\ JoinFrom(<<>>, 0).raised = "KeyError"
    /\ path' = JoinFrom(<<>>, 0).path
    /\ pc' = "crashed"
    /\ error' = "KeyError"
    /\ exitStatus' = 1
    /\ UNCHANGED <<n, viewpoints, path_planner, distances, paths, tooFarAwayPairs,
                   tooFarAwayDistances, a, b, sequence, new_sequence, i,
                   plannerCalls, losLog>>
    /\ UNCHANGED <<configVars, clusterVars>>

----------------------------------------------------------------------------

Next ==
    \/ SetupRejected
    \/ SetupDone
    \/ SkipPair
    \/ PairLineOfSightError
    \/ PairLineOfSight
    \/ PairTooFar
    \/ PairPlanned
    \/ PairNoPath
    \/ CallComputeTspTour
    \/ ReadLKHResult
    \/ RotateSequence
    \/ ReturnSequence
    \/ ResolveSkip
    \/ ResolveEdge
    \/ ResolveNoPath
    \/ AssembleIndexError
    \/ AssembleKeyError
    \/ ReturnTour

Spec == Init /\ [][Next]_vars

SpecConfig == InitConfig /\ [][Next]_vars

\* plan_tour up to its call of compute_tsp_tour (lines 96-167): setup() and the
\* matrix build
NextBuild ==
    \/ SetupRejected
    \/ SetupDone
    \/ SkipPair
    \/ PairLineOfSightError
    \/ PairLineOfSight
    \/ PairTooFar
    \/ PairPlanned
    \/ PairNoPath
    \/ CallComputeTspTour

SpecBuild == Init /\ [][NextBuild]_vars

----------------------------------------------------------------------------
(* clusterViewpoints *)

\* largest number of robots
MaxRobots == 3

\* cluster centres and start positions lie on the points 0..MaxCoord of a line
MaxCoord == 2

Abs(x) == IF x < 0 THEN -x ELSE x

\* pairwise_distances(cluster_ctrs, start_poses): the Euclidean distance of
\* every cluster centre to every start position
pairwise_distances(cluster_ctrs, start_poses) ==
    [p \in (DOMAIN cluster_ctrs) \X (DOMAIN start_poses) |->
        Abs(cluster_ctrs[p[1]] - start_poses[p[2]])]

\* the UAV indices among the values of assigned_clusters
Values(assigned) == {assigned[c] : c \in DOMAIN assigned}

\* mutant: the test for duplicates is missing
Unclaimed_Always(assigned, uav_it) == TRUE

\* `if uav_it not in assigned_clusters.values()`
Unclaimed(assigned, uav_it) == uav_it \notin Values(assigned)

\* mutant: `<=` in place of `<`
CloserThan_OrEqual(d, min_dist) == d <= min_dist

\* `if d_mat[ctr_it, uav_it] < min_dist`
CloserThan(d, min_dist) == d < min_dist

\* mutant: min_dist stays np.inf
UpdatedMinDist_Never(d) == Infinity

\* `min_dist = d_mat[ctr_it, uav_it]`
UpdatedMinDist(d) == d

\* the inner loop `for uav_it in range(k)` of lines 365-370, from uav_it on
RECURSIVE InnerLoop(_, _, _, _, _)
InnerLoop(d, assigned, ctr, uav_it, min_dist) ==
    IF uav_it >= Cardinality(DOMAIN assigned) THEN assigned
    ELSE IF CloserThan(d[<<ctr, uav_it>>], min_dist) /\ Unclaimed(assigned, uav_it)
         THEN InnerLoop(d, [assigned EXCEPT ![ctr] = uav_it], ctr, uav_it + 1,
                        UpdatedMinDist(d[<<ctr, uav_it>>]))
         ELSE InnerLoop(d, assigned, ctr, uav_it + 1, min_dist)

\* mutant: the labels of KMeans are kept
Relabelled_Kept(assigned, lbls) == lbls

\* lines 383-385: `labels[i] = assigned_clusters[labels[i]]` for every i
Relabelled(assigned, lbls) == [v \in DOMAIN lbls |-> assigned[lbls[v]]]

\* lines 396-399: the viewpoints with label r, in the order of their index
RECURSIVE ClusterFrom(_, _, _)
ClusterFrom(lbls, r, v) ==
    IF v >= Cardinality(DOMAIN lbls) THEN <<>>
    ELSE (IF lbls[v] = r THEN <<v>> ELSE <<>>) \o ClusterFrom(lbls, r, v + 1)

\* no planning session is under way
NoPlanning(nv) ==
    /\ n = nv
    /\ viewpoints = ViewpointList(nv)
    /\ path_planner = "euclidean"
    /\ distance_estimation_method = "euclidean"
    /\ obstacles_kdtree = 0
    /\ distances = <<>>
    /\ paths = <<>>
    /\ tooFarAwayPairs = <<>>
    /\ tooFarAwayDistances = <<>>
    /\ pc = "idle"
    /\ a = 0
    /\ b = 0
    /\ sequence = <<>>
    /\ new_sequence = <<>>
    /\ i = 0
    /\ path = <<>>
    /\ exitStatus = 0
    /\ error = ""
    /\ plannerCalls = <<>>
    /\ losLog = <<>>

\* the call clusterViewpoints(problem, viewpoints, method), line 334
InitCluster ==
    \E nv \in 1..MaxViewpoints, robots \in 1..MaxRobots, m \in {"kmeans", "random"} :
        /\ NoPlanning(nv)
        /\ cpc = "clusterViewpoints"
        /\ number_of_robots = robots
        /\ method = m
        /\ d_mat = <<>>
        /\ assigned_clusters = <<>>
        /\ ctr_it = 0
        /\ kmeans_labels = <<>>
        /\ labels = <<>>
        /\ clusters = <<>>

\* lines 337-360: KMeans yields its cluster centres, the start positions are
\* read, d_mat is computed and assigned_clusters is filled with -1
PairwiseDistances ==
    /\ cpc = "clusterViewpoints"
    /\ method = "kmeans"
    /\ \E cluster_ctrs \in [0..(number_of_robots - 1) -> 0..MaxCoord],
          start_poses \in [0..(number_of_robots - 1) -> 0..MaxCoord] :
            d_mat' = pairwise_distances(cluster_ctrs, start_poses)
    /\ assigned_clusters' = [c \in 0..(number_of_robots - 1) |-> -1]
    /\ ctr_it' = 0
    /\ cpc' = "assign"
    /\ UNCHANGED <<number_of_robots, method, kmeans_labels, labels, clusters, planVars>>

\* lines 364-370: one iteration of `for ctr_it in range(k)`
AssignCluster ==
    /\ cpc = "assign"
    /\ ctr_it < number_of_robots
    /\ assigned_clusters' = InnerLoop(d_mat, assigned_clusters, ctr_it, 0, Infinity)
    /\ ctr_it' = ctr_it + 1
    /\ UNCHANGED <<cpc, number_of_robots, method, d_mat, kmeans_labels, labels, clusters,
                   planVars>>

\* line 380: the assert after the loop; d_mat is not read any more
AssertNoDuplicate ==
    /\ cpc = "assign"
    /\ ctr_it >= number_of_robots
    /\ cpc' = IF Cardinality(DOMAIN assigned_clusters) = Cardinality(Values(assigned_clusters))
              THEN "relabel" ELSE "crashed"
    /\ d_mat' = <<>>
    /\ UNCHANGED <<number_of_robots, method, assigned_clusters, ctr_it, kmeans_labels,
                   labels, clusters, planVars>>

\* lines 382-385: the labels of KMeans (one cluster index per viewpoint) are
\* mapped to UAV indices
RelabelByAssignment ==
    /\ cpc = "relabel"
    /\ kmeans_labels' \in [0..(n - 1) -> 0..(number_of_robots - 1)]
    /\ labels' = Relabelled(assigned_clusters, kmeans_labels')
    /\ cpc' = "store"
    /\ UNCHANGED <<number_of_robots, method, d_mat, assigned_clusters, ctr_it, clusters,
                   planVars>>

\* line 390: `labels = [randint(0, k - 1) for vp in viewpoints]`
RandomLabels ==
    /\ cpc = "clusterViewpoints"
    /\ method # "kmeans"
    /\ labels' \in [0..(n - 1) -> 0..(number_of_robots - 1)]
    /\ cpc' = "store"
    /\ UNCHANGED <<number_of_robots, method, d_mat, assigned_clusters, ctr_it,
                   kmeans_labels, clusters, planVars>>

\* lines 393-401: the clusters are filled and returned
StoreClusters ==
    /\ cpc = "store"
    /\ clusters' = [r \in 0..(number_of_robots - 1) |-> ClusterFrom(labels, r, 0)]
    /\ cpc' = "returned"
    /\ UNCHANGED <<number_of_robots, method, d_mat, assigned_clusters, ctr_it,
                   kmeans_labels, labels, planVars>>

NextCluster ==
    \/ PairwiseDistances
    \/ AssignCluster
    \/ AssertNoDuplicate
    \/ RelabelByAssignment
    \/ RandomLabels
    \/ StoreClusters

SpecCluster == InitCluster /\ [][NextCluster]_vars

----------------------------------------------------------------------------
(* Properties *)

Last(s) == s[Len(s)]

\* the two poses are at the same position
SamePoint(p, q) == p.x = q.x /\ p.y = q.y /\ p.z = q.z

\* the pairs (sequence[k], sequence[(k + 1) % n]) the assembly joins
TourEdges == {<<At(sequence, k), At(sequence, (k + 1) % n)>> : k \in 0..(n - 1)}

\* the logged planner calls made by the deferred-edge loop
ResolveCalls == {k \in 1..Len(plannerCalls) : plannerCalls[k].during = "resolve"}

\* the logged planner calls made by plan_tour's loops
BuildCalls == {k \in 1..Len(plannerCalls) : plannerCalls[k].during = "plan_tour"}

\* C1: when the tour is returned, every deferred pair that is an edge of the
\* tour (the wrap-around edge included) has had the planner invoked for it by
\* the deferred-edge loop.
C1_DeferredTourEdgesResolved ==
    pc = "done" =>
        \A e \in TourEdges :
            InTooFarAwayPairs(e[1], e[2]) =>
                \E k \in ResolveCalls : plannerCalls[k].a = e[1] /\ plannerCalls[k].b = e[2]

\* C2: when the tour is returned, the matrix cells of every pair resolved by
\* the deferred-edge loop hold, in both directions, the length the planner
\* reported for that pair.
C2_ResolvedDistanceOverwritten ==
    pc = "done" =>
        \A k \in ResolveCalls :
            LET c == plannerCalls[k]
            IN  /\ distances[<<c.a, c.b>>] = c.distance
                /\ distances[<<c.b, c.a>>] = c.distance

\* C3: in every state, for every stored pair (x, y) the pair (y, x) is stored
\* too and its path is the exact reverse of the path of (x, y).
C3_PathStoreReversed ==
    \A key \in DOMAIN paths :
        /\ <<key[2], key[1]>> \in DOMAIN paths
        /\ paths[<<key[2], key[1]>>] = Reversed(paths[key])

\* C4: in every state, the last pose of every stored path (x, y) has the
\* heading of viewpoint y.
C4_LastHeadingIsTargets ==
    \A key \in DOMAIN paths :
        Last(paths[key]).heading = viewpoints[key[2]].pose.heading

\* C5: in every state (so after every pair-processing step and when the tour
\* is returned) the distance matrix is symmetric and its diagonal is zero.
C5_MatrixSymmetricZeroDiagonal ==
    \A x, y \in {v \in 0..(n - 1) : <<v, v>> \in DOMAIN distances} :
        /\ distances[<<x, y>>] = distances[<<y, x>>]
        /\ distances[<<x, x>>] = 0

\* C5 witness: a returned tour whose matrix holds a deferred placeholder, a
\* planner length and an Euclidean length.
C5_Witness ==
    /\ pc = "done"
    /\ Len(tooFarAwayPairs) > 0
    /\ BuildCalls # {}
    /\ \E k \in 1..Len(losLog) : losLog[k].los

\* C6: for n >= 2 the returned tour is closed: it has at least n + 1 points
\* and its first point is at the position of its last point.
C6_TourClosed ==
    (pc = "done" /\ n >= 2) =>
        /\ Len(path) >= n + 1
        /\ SamePoint(path[1], Last(path))

\* C6 witness: a returned tour over three viewpoints whose first edge was a
\* deferred pair resolved by the planner through a waypoint.
C6_Witness ==
    /\ pc = "done"
    /\ n >= 3
    /\ \E k \in ResolveCalls :
          /\ plannerCalls[k].a = At(sequence, 0)
          /\ plannerCalls[k].b = At(sequence, 1)
          /\ Len(plannerCalls[k].path) > 2

\* the indices of the tour's points that are at viewpoint v's position
PointsAt(v) == {k \in 1..Len(path) : SamePoint(path[k], viewpoints[v].pose)}

\* C7: in the returned tour the position of every viewpoint (the boundary of
\* two joined paths) occurs exactly once, except the start point, which
\* occurs exactly twice: as the first and as the last point.
C7_BoundaryPointsOnce ==
    pc = "done" =>
        \A v \in 0..(n - 1) :
            IF v = At(sequence, 0)
            THEN PointsAt(v) = {1, Len(path)} /\ Len(path) > 1
            ELSE Cardinality(PointsAt(v)) = 1

\* C7 witness: a returned tour over three viewpoints that joins a planner
\* path with waypoints.
C7_Witness ==
    /\ pc = "done"
    /\ n >= 3
    /\ Len(path) > n + 1

\* C8: a planner call that found no path is the last planner call of the
\* session; the session has exited with a non-zero status, no path was stored
\* for the pair by that call, and no tour, partial or complete, exists.
C8_NoPathIsFatal ==
    \A k \in 1..Len(plannerCalls) :
        LET c == plannerCalls[k]
        IN  Len(c.path) = 0 =>
                /\ k = Len(plannerCalls)
                /\ pc = "exit"
                /\ exitStatus # 0
                /\ path = <<>>
                /\ IF c.during = "plan_tour"
                   THEN <<c.a, c.b>> \notin DOMAIN paths
                   ELSE paths[<<c.a, c.b>>] = <<viewpoints[c.a].pose, viewpoints[c.b].pose>>

\* C8 witness: the session has exited because the planner found no path for
\* a deferred pair, after an earlier deferred pair was resolved.
C8_Witness ==
    /\ pc = "exit"
    /\ exitStatus = -2
    /\ Len(plannerCalls) > 1
    /\ Last(plannerCalls).during = "resolve"
    /\ Len(Last(plannerCalls).path) = 0

\* C9: a sequence that is empty or has no anchor entry is never handed to the
\* tour assembly, and no tour is returned for it.
C9_UnanchoredSequenceIsFatal ==
    pc \in {"resolve", "done"} =>
        (Len(sequence) > 0 /\ None \in Range(sequence))

\* t is s rotated: same length, and every entry of s is in t followed
\* (cyclically) by the entry that follows it in s
IsRotation(s, t) ==
    /\ Len(t) = Len(s)
    /\ \A k \in 1..Len(s) :
          \E j \in 1..Len(t) :
              /\ t[j] = s[k]
              /\ t[(j % Len(t)) + 1] = s[(k % Len(s)) + 1]

\* C10: when the oracle's result contains the anchor, the sequence
\* compute_tsp_sequence is about to return begins with the anchor and is a
\* rotation of the oracle's result.
C10_AnchoredRotation ==
    (pc = "return_sequence" /\ None \in Range(sequence)) =>
        /\ new_sequence[1] = None
        /\ IsRotation(sequence, new_sequence)

\* C10 witness: the oracle put the anchor last, behind three viewpoints, and
\* the sequence to return starts with it.
C10_Witness ==
    /\ pc = "return_sequence"
    /\ Len(sequence) = 4
    /\ sequence[4] = None
    /\ new_sequence[1] = None
    /\ new_sequence # sequence

\* the four recognized method names
Recognized == {"euclidean", "astar", "rrt", "rrtstar"}

\* C11: while the configuration names a planning or distance-estimation
\* method that is not recognized, the session is at the call of setup() or has
\* ended there with an AssertionError: no KD tree was built, no line-of-sight
\* test and no planner call was made, no matrix or path exists and the oracle
\* was not invoked.
C11_UnknownMethodRejected ==
    (path_planner \notin Recognized \/ distance_estimation_method \notin Recognized) =>
        /\ pc \in {"setup", "crashed"}
        /\ pc = "crashed" => error = "AssertionError"
        /\ obstacles_kdtree = 0
        /\ losLog = <<>>
        /\ plannerCalls = <<>>
        /\ DOMAIN distances = {}
        /\ DOMAIN paths = {}
        /\ sequence = <<>>
        /\ path = <<>>

\* C11 witness: a session rejected for its distance-estimation method alone.
C11_Witness ==
    /\ pc = "crashed"
    /\ error = "AssertionError"
    /\ path_planner = "rrt"
    /\ distance_estimation_method \notin Recognized

\* the matrix build of plan_tour is over
MatrixBuilt == DOMAIN distances # {} /\ a >= n

\* the line-of-sight test of the pair {x, y} returned False
LosFailed(x, y) ==
    \E j \in 1..Len(losLog) :
        /\ ~losLog[j].los
        /\ \/ (losLog[j].a = x /\ losLog[j].b = y)
           \/ (losLog[j].a = y /\ losLog[j].b = x)

\* the Euclidean estimate of the pair (x, y)
Estimate(x, y) == distEuclidean(viewpoints[x].pose, viewpoints[y].pose)

\* C14: after the matrix build a pair is in tooFarAwayPairs, in both
\* orientations, exactly if its line-of-sight test failed and its Euclidean
\* estimate is greater than DIST_THRESHOLD; the matrix holds 3 times the
\* estimate for it in both directions and tooFarAwayDistances the estimate.
C14_DeferredIffBlockedAndFar ==
    MatrixBuilt =>
        \A x, y \in 0..(n - 1) :
            x < y =>
                LET estimate == Estimate(x, y)
                    deferred == InTooFarAwayPairs(x, y)
                IN  /\ deferred <=> (LosFailed(x, y) /\ estimate > DIST_THRESHOLD)
                    /\ InTooFarAwayPairs(y, x) <=> deferred
                    /\ deferred =>
                          /\ distances[<<x, y>>] = 3 * estimate
                          /\ distances[<<y, x>>] = 3 * estimate
                          /\ <<x, y>> \in DOMAIN tooFarAwayDistances
                          /\ tooFarAwayDistances[<<x, y>>] = estimate

\* C14 witness: the matrix of three viewpoints is built; the pair 8 apart
\* was blocked and deferred (cell 24), the pair 4 apart was blocked and planned.
C14_Witness ==
    /\ pc = "compute_tsp_sequence"
    /\ n = 3
    /\ InTooFarAwayPairs(0, 1)
    /\ distances[<<0, 1>>] = 24
    /\ LosFailed(1, 2)
    /\ ~InTooFarAwayPairs(1, 2)

\* the records c and e are about the same unordered pair of viewpoints
SamePair(c, e) == (c.a = e.a /\ c.b = e.b) \/ (c.a = e.b /\ c.b = e.a)

\* C16: every planner call of plan_tour's loops is for a pair whose
\* line-of-sight test failed and whose estimate is at most DIST_THRESHOLD;
\* every planner call of the deferred-edge loop is for a deferred pair that is
\* two consecutive entries of the sequence; no unordered pair is planned
\* twice; a pair with line of sight is never planned and keeps the two-point
\* segment and the Euclidean distance.
C16_PlannerOnlyWhereNeeded ==
    /\ \A k \in 1..Len(plannerCalls) :
          LET c == plannerCalls[k]
          IN  /\ c.during = "plan_tour" =>
                    (LosFailed(c.a, c.b) /\ Estimate(c.a, c.b) <= DIST_THRESHOLD)
              /\ c.during = "resolve" =>
                    /\ InTooFarAwayPairs(c.a, c.b)
                    /\ \E j \in 1..(Len(sequence) - 1) :
                          sequence[j] = c.a /\ sequence[j + 1] = c.b
              /\ \A j \in 1..Len(plannerCalls) :
                    j # k => ~SamePair(plannerCalls[j], c)
    /\ \A k \in 1..Len(losLog) :
          LET e == losLog[k]
          IN  e.los =>
                /\ \A j \in 1..Len(plannerCalls) :
                      ~SamePair(plannerCalls[j], e)
                /\ paths[<<e.a, e.b>>] = <<viewpoints[e.a].pose, viewpoints[e.b].pose>>
                /\ paths[<<e.b, e.a>>] = <<viewpoints[e.b].pose, viewpoints[e.a].pose>>
                /\ distances[<<e.a, e.b>>] = Estimate(e.a, e.b)

\* C16 witness: a returned tour of three viewpoints after one planner call
\* during the matrix build, one for a deferred edge and one pair with line of
\* sight.
C16_Witness ==
    /\ pc = "done"
    /\ n = 3
    /\ BuildCalls # {}
    /\ ResolveCalls # {}
    /\ \E k \in 1..Len(losLog) : losLog[k].los

\* C17: in a session whose two methods are recognized, once a line-of-sight
\* test or a planner call has been made the KD tree has been built exactly
\* once.
C17_IndexBuiltBeforeFirstQuery ==
    (path_planner \in Recognized /\ distance_estimation_method \in Recognized
        /\ (Len(losLog) > 0 \/ Len(plannerCalls) > 0)) =>
        obstacles_kdtree = 1

\* C18: when the oracle is invoked no off-diagonal cell of the matrix is
\* unset and every off-diagonal pair has a stored path in both directions.
C18_PairwiseWorkBeforeOracle ==
    pc = "compute_tsp_sequence" =>
        \A x, y \in 0..(n - 1) :
            x # y =>
                /\ distances[<<x, y>>] # UNSET
                /\ <<x, y>> \in DOMAIN paths
                /\ <<y, x>> \in DOMAIN paths
                /\ Len(paths[<<x, y>>]) > 0

\* C18 witness: the oracle is about to be invoked for three viewpoints.
C18_Witness ==
    /\ pc = "compute_tsp_sequence"
    /\ n = 3
    /\ Len(losLog) = 3

\* C20: a session whose sequence is the anchor followed by the n viewpoint
\* indices does not end in an exception of the assembly: it returns a tour
\* in which the pose of every viewpoint appears.
C20_AnchoredOrderAssembled ==
    (pc \in {"done", "crashed"} /\ Len(sequence) = n + 1 /\ sequence[1] = None) =>
        /\ pc = "done"
        /\ \A v \in 0..(n - 1) : PointsAt(v) # {}

\* the cluster indices and the UAV indices
Robots == 0..(number_of_robots - 1)

\* the assignment loop is over and d_mat is still at hand
AssignmentDone == cpc = "assign" /\ ctr_it = number_of_robots

\* f maps the cluster indices one-to-one onto the UAV indices
IsBijection(f) ==
    /\ DOMAIN f = Robots
    /\ \A c \in Robots : f[c] \in Robots
    /\ \A c1, c2 \in Robots : c1 # c2 => f[c1] # f[c2]

\* C12: in kmeans mode the assert of line 380 never fails, and from the end
\* of the assignment loop on assigned_clusters maps the cluster indices
\* 0..k-1 one-to-one onto the UAV indices 0..k-1.
C12_AssignmentIsBijection ==
    /\ cpc # "crashed"
    /\ (AssignmentDone \/ (method = "kmeans" /\ cpc \in {"relabel", "store", "returned"})) =>
          IsBijection(assigned_clusters)

\* C12 witness: the assert passed for three robots with an assignment that
\* is not the identity.
C12_Witness ==
    /\ cpc = "relabel"
    /\ number_of_robots = 3
    /\ \E c \in Robots : assigned_clusters[c] # c

\* the sum of d[c, f[c]] over the cluster indices from c on
RECURSIVE TotalFrom(_, _, _)
TotalFrom(d, f, c) ==
    IF c >= Cardinality(DOMAIN f) THEN 0
    ELSE d[<<c, f[c]>>] + TotalFrom(d, f, c + 1)

\* C13 as stated: the summed distance of the assignment is no larger than
\* that of any other bijection between clusters and robots.
C13_TotalCostMinimal ==
    AssignmentDone =>
        \A f \in Permutations(Robots) :
            TotalFrom(d_mat, assigned_clusters, 0) <= TotalFrom(d_mat, f, 0)

\* the lowest cluster index at which f and g differ
FirstDifference(f, g) ==
    CHOOSE c \in Robots : f[c] # g[c] /\ \A c2 \in Robots : c2 < c => f[c2] = g[c2]

\* C13 amended: the assignment is minimal in the order of the cluster
\* indices, not in the sum: against any other bijection, at the first cluster
\* index where the two differ the distance of the chosen robot is no larger.
C13_MinimalInIndexOrder ==
    AssignmentDone =>
        \A f \in Permutations(Robots) :
            f # assigned_clusters =>
                LET c == FirstDifference(assigned_clusters, f)
                IN  d_mat[<<c, assigned_clusters[c]>>] <= d_mat[<<c, f[c]>>]

\* C13 witness: an assignment of three clusters that another bijection
\* beats in the summed distance.
C13_Witness ==
    /\ AssignmentDone
    /\ number_of_robots = 3
    /\ \E f \in Permutations(Robots) :
          TotalFrom(d_mat, f, 0) < TotalFrom(d_mat, assigned_clusters, 0)

\* the viewpoint indices in cluster r of the returned value
Members(r) == {clusters[r][j] : j \in 1..Len(clusters[r])}

\* C15: the returned value has one group per robot, every viewpoint is in
\* exactly one group at exactly one position, and in kmeans mode group r
\* holds exactly the viewpoints whose KMeans cluster was assigned to robot r.
C15_ClustersPartitionViewpoints ==
    cpc = "returned" =>
        /\ DOMAIN clusters = Robots
        /\ \A r \in Robots : Members(r) \subseteq 0..(n - 1)
        /\ \A v \in 0..(n - 1) :
              Cardinality({p \in {<<r, j>> : r \in Robots, j \in 1..n} :
                              p[2] <= Len(clusters[p[1]]) /\ clusters[p[1]][p[2]] = v}) = 1
        /\ method = "kmeans" =>
              \A r \in Robots :
                  Members(r) = {v \in 0..(n - 1) : assigned_clusters[kmeans_labels[v]] = r}

\* C15 witness: kmeans mode returned groups for three robots and three
\* viewpoints under an assignment that is not the identity, two groups
\* non-empty.
C15_Witness ==
    /\ cpc = "returned"
    /\ method = "kmeans"
    /\ number_of_robots = 3
    /\ n = 3
    /\ \E c \in Robots : assigned_clusters[c] # c /\ c \in {kmeans_labels[v] : v \in 0..(n - 1)}
    /\ Cardinality({r \in Robots : Members(r) # {}}) >= 2

\* the robots no cluster of smaller index than c was assigned
Free(c) == {r \in Robots : \A c2 \in Robots : c2 < c => assigned_clusters[c2] # r}

\* the row-wise argmin of d_mat: the lowest robot index of smallest distance
ArgMin(c) ==
    CHOOSE r \in Robots :
        \A r2 \in Robots :
            \/ d_mat[<<c, r>>] < d_mat[<<c, r2>>]
            \/ (d_mat[<<c, r>>] = d_mat[<<c, r2>>] /\ r <= r2)

\* C19: every cluster index c the loop has passed is assigned the robot of
\* smallest distance among the robots free at c, the lowest index among
\* equally near ones; and when the loop is over and the row-wise argmin gives
\* two clusters the same robot, the assignment is a bijection and is not the
\* argmin.
C19_GreedyNearestUnclaimed ==
    cpc = "assign" =>
        /\ \A c \in Robots :
              c < ctr_it =>
                  /\ assigned_clusters[c] \in Free(c)
                  /\ \A r \in Free(c) :
                        \/ d_mat[<<c, assigned_clusters[c]>>] < d_mat[<<c, r>>]
                        \/ /\ d_mat[<<c, assigned_clusters[c]>>] = d_mat[<<c, r>>]
                           /\ assigned_clusters[c] <= r
        /\ (AssignmentDone /\ \E c1, c2 \in Robots : c1 # c2 /\ ArgMin(c1) = ArgMin(c2)) =>
              /\ IsBijection(assigned_clusters)
              /\ \E c \in Robots : assigned_clusters[c] # ArgMin(c)

\* C19 witness: three clusters, the argmin of two of them is the same robot,
\* and one cluster had two equally near free robots.
C19_Witness ==
    /\ AssignmentDone
    /\ number_of_robots = 3
    /\ \E c1, c2 \in Robots : c1 # c2 /\ ArgMin(c1) = ArgMin(c2)
    /\ \E c \in Robots : \E r \in Free(c) :
          r # assigned_clusters[c] /\ d_mat[<<c, r>>] = d_mat[<<c, assigned_clusters[c]>>]

====
